---------------------------- MODULE Spec2Model ----------------------------
(***************************************************************************)
(* Model of the data-preparation cells of                                  *)
(* sagemaker-fine-tune-wav2vec2-presentation.ipynb: the train/test split,  *)
(* the text normalizer remove_special_characters, the vocabulary builder   *)
(* (extract_characters, vocab_list, vocab_dict), the vocab.json dump, its  *)
(* upload and its reload by the tokenizer; then the sample check, the       *)
(* training job and the creation of the model to deploy.                   *)
(*                                                                         *)
(* A Python str is a sequence of one-character strings; a dict is the      *)
(* sequence of its items in insertion order, keys unique.                  *)
(***************************************************************************)
EXTENDS Integers, Sequences, FiniteSets, TLC

VARIABLES
    pc,          \* the next statement of the notebook to execute
    err,         \* the exception that stopped the run, "none" if none
    data,        \* data["text"]: the loaded transcripts
    dataset,     \* dataset["train"]["text"], dataset["test"]["text"]
    vocabs,      \* vocabs[split]: the columns "vocab" and "texts"
    vocab_list,  \* the enumerated distinct characters
    vocab_dict,  \* the character -> index dict
    vocab_file,  \* the local file vocab.json
    s3,          \* the object f'{PREFIX}/vocab.json' of BUCKET
    tokenizer,   \* the encoder loaded by Wav2Vec2CTCTokenizer
    batch,       \* the example remove_special_characters is applied to
    history,     \* the texts batch["text"] has held, oldest first
    globals,     \* the names the cells after the tokenizer have bound
    jobs         \* the training jobs started on SageMaker

vars == <<pc, err, data, dataset, vocabs, vocab_list, vocab_dict,
          vocab_file, s3, tokenizer, batch, history, globals, jobs>>

pipeline_vars == <<pc, err, data, dataset, vocabs, vocab_list, vocab_dict,
                   vocab_file, s3, tokenizer>>

normalizer_vars == <<batch, history>>

deploy_vars == <<globals, jobs>>

---------------------------------------------------------------------------
(* Bounds of the model *)

MaxDocs == 3

MaxLen == 3

MaxApply == 2

MaxClock == 2

(* test_size=0.2, as a percentage *)
TestSizePercent == 20

---------------------------------------------------------------------------
(* Characters and strings *)

\* The class with its last member, the double quote, left out.
IgnoreCharsNoQuote == {",", "?", ".", "!", "-", ";", ":"}

\* The character class of chars_to_ignore_regex: , ? . ! - ; : "
IgnoreChars == {",", "?", ".", "!", "-", ";", ":", "\""}

\* Characters the normalizer is exercised on: the ignore class, letters of
\* both cases, whitespace, a digit and punctuation outside the class.
NormAlphabet ==
    {",", "?", ".", "!", "-", ";", ":", "\"", "A", "a", "Z", "z", " ", "|", "'", "1"}

\* Characters of the transcripts the pipeline is run on.
RawAlphabet == {"A", "\\", " ", "|", ","}

\* All strings over alphabet of length at most n.
Strings(alphabet, n) == UNION {[1..k -> alphabet] : k \in 0..n}

\* Texts of the kind the transcripts hold, longer than MaxLen
Examples ==
    {<<"H", "e", "l", "l", "o", ",", " ", "W", "o", "r", "l", "d", "!">>,
     <<"h", "i", ",", "t", "h", "e", "r", "e">>}

\* The transcripts load_dataset may deliver: empty or one character long.
Transcripts == Strings(RawAlphabet, 1)

UpperLetters ==
    <<"A", "B", "C", "D", "E", "F", "G", "H", "I", "J", "K", "L", "M",
      "N", "O", "P", "Q", "R", "S", "T", "U", "V", "W", "X", "Y", "Z">>

LowerLetters ==
    <<"a", "b", "c", "d", "e", "f", "g", "h", "i", "j", "k", "l", "m",
      "n", "o", "p", "q", "r", "s", "t", "u", "v", "w", "x", "y", "z">>

\* str.lower() of one character: a cased letter maps to its lowercase form,
\* every other character to itself.
LowerChar(c) ==
    IF \E i \in DOMAIN UpperLetters : UpperLetters[i] = c
    THEN LowerLetters[CHOOSE i \in DOMAIN UpperLetters : UpperLetters[i] = c]
    ELSE c

\* str.lower()
Lower(str) == [i \in DOMAIN str |-> LowerChar(str[i])]

\* As ReSub, with count=1: only the first match is replaced.
RECURSIVE ReSubFirst(_, _)
ReSubFirst(repl, str) ==
    IF str = <<>> THEN <<>>
    ELSE IF Head(str) \in IgnoreChars
         THEN repl \o Tail(str)
         ELSE <<Head(str)>> \o ReSubFirst(repl, Tail(str))

\* re.sub(chars_to_ignore_regex, repl, str): every match of the class, left
\* to right, is replaced by repl.
RECURSIVE ReSub(_, _)
ReSub(repl, str) ==
    IF str = <<>> THEN <<>>
    ELSE IF Head(str) \in IgnoreChars
         THEN repl \o ReSub(repl, Tail(str))
         ELSE <<Head(str)>> \o ReSub(repl, Tail(str))

\* As Normalize, with ' ' as the replacement.
NormalizeBlank(text) == Lower(ReSub(<<" ">>, text))

\* re.sub(chars_to_ignore_regex, '', text).lower()
Normalize(text) == Lower(ReSub(<<>>, text))

\* remove_special_characters(batch)
remove_special_characters(b) == [b EXCEPT !.text = Normalize(b.text)]

\* sep.join(strs)
RECURSIVE Join(_, _)
Join(sep, strs) ==
    IF strs = <<>> THEN <<>>
    ELSE IF Len(strs) = 1 THEN strs[1]
    ELSE strs[1] \o sep \o Join(sep, Tail(strs))

\* set(str): the distinct characters, each a str of length one
CharSet(str) == {<<str[i]>> : i \in DOMAIN str}

\* The keys the builder names
SPACE == <<" ">>

DELIMITER == <<"|">>

UNK == <<"[", "U", "N", "K", "]">>

PAD == <<"[", "P", "A", "D", "]">>

\* The orders in which a set may be iterated: list(set).
Orders(S) ==
    {f \in [1..Cardinality(S) -> S] : \A i, j \in DOMAIN f : f[i] = f[j] => i = j}

---------------------------------------------------------------------------
(* dict *)

Item(k, v) == [key |-> k, val |-> v]

DictKeys(d) == {d[i].key : i \in DOMAIN d}

DictVals(d) == {d[i].val : i \in DOMAIN d}

DictHas(d, k) == k \in DictKeys(d)

\* d[k], for a key d has
DictGet(d, k) == d[CHOOSE i \in DOMAIN d : d[i].key = k].val

\* d[k] = v: a present key keeps its place, a new key goes last
DictSet(d, k, v) ==
    IF DictHas(d, k)
    THEN [i \in DOMAIN d |-> IF d[i].key = k THEN Item(k, v) ELSE d[i]]
    ELSE Append(d, Item(k, v))

\* del d[k]
DictDel(d, k) == SelectSeq(d, LAMBDA e : e.key # k)

\* {v: k for k, v in enumerate(lst)}
Enumerate(lst) == [i \in DOMAIN lst |-> Item(lst[i], i - 1)]

---------------------------------------------------------------------------
(* json *)

Digits == <<"0", "1", "2", "3", "4", "5", "6", "7", "8", "9">>

\* str(n) of an int n >= 0, as json writes it
RECURSIVE IntStr(_)
IntStr(n) ==
    IF n < 10 THEN <<Digits[n + 1]>>
    ELSE IntStr(n \div 10) \o <<Digits[(n % 10) + 1]>>

\* As JsonEscape, with nothing escaped.
JsonEscapeNone(str) == str

\* The body of a JSON string: a quote and a backslash are escaped.
RECURSIVE JsonEscape(_)
JsonEscape(str) ==
    IF str = <<>> THEN <<>>
    ELSE IF Head(str) \in {"\"", "\\"}
         THEN <<"\\", Head(str)>> \o JsonEscape(Tail(str))
         ELSE <<Head(str)>> \o JsonEscape(Tail(str))

JsonString(str) == <<"\"">> \o JsonEscape(str) \o <<"\"">>

JsonItem(e) == JsonString(e.key) \o <<":", " ">> \o IntStr(e.val)

\* json.dumps(d): the items in insertion order, separated by ", "
JsonDumps(d) ==
    <<"{">> \o Join(<<",", " ">>, [i \in DOMAIN d |-> JsonItem(d[i])]) \o <<"}">>

ParseError == [ok |-> FALSE, val |-> <<>>, next |-> 0]

Parsed(v, n) == [ok |-> TRUE, val |-> v, next |-> n]

\* The first position >= i of t that holds no blank
RECURSIVE SkipBlank(_, _)
SkipBlank(t, i) ==
    IF i <= Len(t) /\ t[i] = " " THEN SkipBlank(t, i + 1) ELSE i

\* The body of a JSON string from position i on, up to its closing quote
RECURSIVE ScanString(_, _, _)
ScanString(t, i, acc) ==
    IF i > Len(t) THEN ParseError
    ELSE IF t[i] = "\"" THEN Parsed(acc, i + 1)
    ELSE IF t[i] = "\\"
         THEN IF i + 1 <= Len(t) /\ t[i + 1] \in {"\"", "\\"}
              THEN ScanString(t, i + 2, Append(acc, t[i + 1]))
              ELSE ParseError
    ELSE ScanString(t, i + 1, Append(acc, t[i]))

ParseString(t, i) ==
    IF i <= Len(t) /\ t[i] = "\"" THEN ScanString(t, i + 1, <<>>) ELSE ParseError

DigitValue(c) == (CHOOSE k \in DOMAIN Digits : Digits[k] = c) - 1

IsDigit(c) == \E k \in DOMAIN Digits : Digits[k] = c

\* The digits from position i on, with the value n read so far
RECURSIVE ScanInt(_, _, _)
ScanInt(t, i, n) ==
    IF i <= Len(t) /\ IsDigit(t[i])
    THEN ScanInt(t, i + 1, 10 * n + DigitValue(t[i]))
    ELSE Parsed(n, i)

ParseInt(t, i) ==
    IF i <= Len(t) /\ IsDigit(t[i]) THEN ScanInt(t, i, 0) ELSE ParseError

\* The members of an object from position i on: "key": value, ... }
RECURSIVE ParseMembers(_, _, _)
ParseMembers(t, i, d) ==
    LET k == ParseString(t, SkipBlank(t, i))
        colon == SkipBlank(t, k.next)
        v == ParseInt(t, SkipBlank(t, colon + 1))
        after == SkipBlank(t, v.next)
    IN  IF ~k.ok THEN ParseError
        ELSE IF ~(colon <= Len(t) /\ t[colon] = ":") THEN ParseError
        ELSE IF ~v.ok THEN ParseError
        ELSE IF after > Len(t) THEN ParseError
        ELSE IF t[after] = "}" THEN Parsed(DictSet(d, k.val, v.val), after + 1)
        ELSE IF t[after] = "," THEN ParseMembers(t, after + 1, DictSet(d, k.val, v.val))
        ELSE ParseError

\* json.loads(t) of an object of integers: a key given twice keeps its last value
JsonLoads(t) ==
    LET open == SkipBlank(t, 1)
        first == SkipBlank(t, open + 1)
        r == IF ~(open <= Len(t) /\ t[open] = "{") THEN ParseError
             ELSE IF first <= Len(t) /\ t[first] = "}" THEN Parsed(<<>>, first + 1)
             ELSE ParseMembers(t, open + 1, <<>>)
    IN  IF r.ok /\ SkipBlank(t, r.next) = Len(t) + 1 THEN r ELSE ParseError

---------------------------------------------------------------------------
(* Values before assignment *)

NoDataset == [train |-> <<>>, test |-> <<>>]

NoColumns == [vocab |-> {}, texts |-> <<>>]

NoVocabs == [train |-> NoColumns, test |-> NoColumns]

NoFile == [exists |-> FALSE, content |-> <<>>]

NoTokenizer == [created |-> FALSE, encoder |-> <<>>]

NoBatch == [text |-> <<>>]

\* No name bound yet
NoGlobals == [name \in {} |-> 0]

---------------------------------------------------------------------------
(* The notebook, statement by statement *)

Fail(e) ==
    /\ pc' = "failed"
    /\ err' = e

\* extract_characters(batch) on the column "text" of one whole split
extract_characters(text) ==
    LET texts == Join(<<" ">>, text)
    IN  [vocab |-> CharSet(texts), texts |-> texts]

\* ceil(test_size * n_samples)
NTest(n) == (TestSizePercent * n + 99) \div 100

\* data.train_test_split(test_size=0.2): a shuffle of the rows, the first
\* n_test of them the test split; ValueError when a split would be empty.
TrainTestSplit ==
    /\ pc = "split"
    /\ LET n == Len(data)
           n_test == NTest(n)
           n_train == n - n_test
       IN  IF n_train = 0 \/ n_test = 0
           THEN /\ Fail("ValueError")
                /\ UNCHANGED dataset
           ELSE /\ \E perm \in Orders(1..n) :
                      dataset' =
                          [test |-> [i \in 1..n_test |-> data[perm[i]]],
                           train |-> [i \in 1..n_train |-> data[perm[n_test + i]]]]
                /\ pc' = "normalize"
                /\ UNCHANGED err
    /\ UNCHANGED <<data, vocabs, vocab_list, vocab_dict, vocab_file, s3, tokenizer>>
    /\ UNCHANGED normalizer_vars
    /\ UNCHANGED deploy_vars

\* As MapNormalize, with the transcripts left as loaded.
MapNormalizeSkip ==
    /\ pc = "normalize"
    /\ dataset' = dataset
    /\ pc' = "extract"
    /\ UNCHANGED <<err, data, vocabs, vocab_list, vocab_dict, vocab_file, s3, tokenizer>>
    /\ UNCHANGED normalizer_vars
    /\ UNCHANGED deploy_vars

\* dataset = dataset.map(remove_special_characters)
MapNormalize ==
    /\ pc = "normalize"
    /\ dataset' =
           [split \in DOMAIN dataset |->
               [i \in DOMAIN dataset[split] |->
                   remove_special_characters([text |-> dataset[split][i]]).text]]
    /\ pc' = "extract"
    /\ UNCHANGED <<err, data, vocabs, vocab_list, vocab_dict, vocab_file, s3, tokenizer>>
    /\ UNCHANGED normalizer_vars
    /\ UNCHANGED deploy_vars

\* vocabs = dataset.map(extract_characters, batched=True, batch_size=-1, ...)
MapExtract ==
    /\ pc = "extract"
    /\ vocabs' = [split \in DOMAIN dataset |-> extract_characters(dataset[split])]
    /\ pc' = "merge"
    /\ UNCHANGED <<err, data, dataset, vocab_list, vocab_dict, vocab_file, s3, tokenizer>>
    /\ UNCHANGED normalizer_vars
    /\ UNCHANGED deploy_vars

\* As MergeVocab, with the characters of the test split left out.
MergeVocabTrainOnly ==
    /\ pc = "merge"
    /\ \E order \in Orders(vocabs.train.vocab) :
           vocab_list' = order
    /\ pc' = "enumerate"
    /\ UNCHANGED <<err, data, dataset, vocabs, vocab_dict, vocab_file, s3, tokenizer>>
    /\ UNCHANGED normalizer_vars
    /\ UNCHANGED deploy_vars

\* vocab_list = list(set(vocabs["train"]["vocab"][0]) | set(vocabs["test"]["vocab"][0]))
MergeVocab ==
    /\ pc = "merge"
    /\ \E order \in Orders(vocabs.train.vocab \cup vocabs.test.vocab) :
           vocab_list' = order
    /\ pc' = "enumerate"
    /\ UNCHANGED <<err, data, dataset, vocabs, vocab_dict, vocab_file, s3, tokenizer>>
    /\ UNCHANGED normalizer_vars
    /\ UNCHANGED deploy_vars

\* vocab_dict = {v: k for k, v in enumerate(vocab_list)}
BuildDict ==
    /\ pc = "enumerate"
    /\ vocab_dict' = Enumerate(vocab_list)
    /\ pc' = "assign_delimiter"
    /\ UNCHANGED <<err, data, dataset, vocabs, vocab_list, vocab_file, s3, tokenizer>>
    /\ UNCHANGED normalizer_vars
    /\ UNCHANGED deploy_vars

\* As AssignDelimiter, with the next free index given to "|".
AssignDelimiterFresh ==
    /\ pc = "assign_delimiter"
    /\ IF DictHas(vocab_dict, SPACE)
       THEN /\ vocab_dict' = DictSet(vocab_dict, DELIMITER, Len(vocab_dict))
            /\ pc' = "del_space"
            /\ UNCHANGED err
       ELSE /\ Fail("KeyError")
            /\ UNCHANGED vocab_dict
    /\ UNCHANGED <<data, dataset, vocabs, vocab_list, vocab_file, s3, tokenizer>>
    /\ UNCHANGED normalizer_vars
    /\ UNCHANGED deploy_vars

\* vocab_dict["|"] = vocab_dict[" "]
AssignDelimiter ==
    /\ pc = "assign_delimiter"
    /\ IF DictHas(vocab_dict, SPACE)
       THEN /\ vocab_dict' = DictSet(vocab_dict, DELIMITER, DictGet(vocab_dict, SPACE))
            /\ pc' = "del_space"
            /\ UNCHANGED err
       ELSE /\ Fail("KeyError")
            /\ UNCHANGED vocab_dict
    /\ UNCHANGED <<data, dataset, vocabs, vocab_list, vocab_file, s3, tokenizer>>
    /\ UNCHANGED normalizer_vars
    /\ UNCHANGED deploy_vars

\* del vocab_dict[" "]
DeleteSpace ==
    /\ pc = "del_space"
    /\ vocab_dict' = DictDel(vocab_dict, SPACE)
    /\ pc' = "add_unk"
    /\ UNCHANGED <<err, data, dataset, vocabs, vocab_list, vocab_file, s3, tokenizer>>
    /\ UNCHANGED normalizer_vars
    /\ UNCHANGED deploy_vars

\* vocab_dict["[UNK]"] = len(vocab_dict)
AddUnk ==
    /\ pc = "add_unk"
    /\ vocab_dict' = DictSet(vocab_dict, UNK, Len(vocab_dict))
    /\ pc' = "add_pad"
    /\ UNCHANGED <<err, data, dataset, vocabs, vocab_list, vocab_file, s3, tokenizer>>
    /\ UNCHANGED normalizer_vars
    /\ UNCHANGED deploy_vars

\* vocab_dict["[PAD]"] = len(vocab_dict)
AddPad ==
    /\ pc = "add_pad"
    /\ vocab_dict' = DictSet(vocab_dict, PAD, Len(vocab_dict))
    /\ pc' = "dump"
    /\ UNCHANGED <<err, data, dataset, vocabs, vocab_list, vocab_file, s3, tokenizer>>
    /\ UNCHANGED normalizer_vars
    /\ UNCHANGED deploy_vars

\* with open('vocab.json', 'w') as vocab_file: json.dump(vocab_dict, vocab_file)
DumpVocab ==
    /\ pc = "dump"
    /\ vocab_file' = [exists |-> TRUE, content |-> JsonDumps(vocab_dict)]
    /\ pc' = "upload"
    /\ UNCHANGED <<err, data, dataset, vocabs, vocab_list, vocab_dict, s3, tokenizer>>
    /\ UNCHANGED normalizer_vars
    /\ UNCHANGED deploy_vars

\* s3.upload_file('vocab.json', BUCKET, f'{PREFIX}/vocab.json')
UploadVocab ==
    /\ pc = "upload"
    /\ s3' = vocab_file
    /\ pc' = "tokenizer"
    /\ UNCHANGED <<err, data, dataset, vocabs, vocab_list, vocab_dict, vocab_file, tokenizer>>
    /\ UNCHANGED normalizer_vars
    /\ UNCHANGED deploy_vars

\* tokenizer = Wav2Vec2CTCTokenizer("vocab.json", ...): the encoder is
\* json.load of the file; a document that does not parse stops the run.
CreateTokenizer ==
    /\ pc = "tokenizer"
    /\ LET loaded == JsonLoads(vocab_file.content)
       IN  IF loaded.ok
           THEN /\ tokenizer' = [created |-> TRUE, encoder |-> loaded.val]
                /\ pc' = "sample"
                /\ UNCHANGED err
           ELSE /\ Fail("JSONDecodeError")
                /\ UNCHANGED tokenizer
    /\ UNCHANGED <<data, dataset, vocabs, vocab_list, vocab_dict, vocab_file, s3>>
    /\ UNCHANGED normalizer_vars
    /\ UNCHANGED deploy_vars

---------------------------------------------------------------------------
(* The cells after the tokenizer *)

\* globals with name bound to value
Bind(g, name, value) == [n \in DOMAIN g \cup {name} |-> IF n = name THEN value ELSE g[n]]

Bound(name) == name \in DOMAIN globals

\* The values int(time.time()) may return
Clock == 1..MaxClock

\* f"huggingface-wav2vec2-training-{id}"
JobName(id) == <<"huggingface-wav2vec2-training", id>>

\* f's3://{BUCKET}/{PREFIX}/{TRAINING_JOB_NAME}/output/'
OutputPath(job_name) == <<"s3", "BUCKET", "PREFIX", job_name, "output">>

\* The artifact of the training job job_name under output_path:
\* {output_path}/{job_name}/output/model.tar.gz
ModelArtifact(output_path, job_name) ==
    output_path \o <<job_name, "output", "model.tar.gz">>

\* rand_int = random.randint(0, len(dataset["train"])): both ends included
DrawSample ==
    /\ pc = "sample"
    /\ \E r \in 0..Len(dataset.train) : globals' = Bind(globals, "rand_int", r)
    /\ pc' = "show_sample"
    /\ UNCHANGED <<err, data, dataset, vocabs, vocab_list, vocab_dict, vocab_file, s3,
                   tokenizer, jobs>>
    /\ UNCHANGED normalizer_vars

\* print(dataset["train"][rand_int]["target_text"]): IndexError past the last row
ShowSample ==
    /\ pc = "show_sample"
    /\ IF globals["rand_int"] + 1 \in DOMAIN dataset.train
       THEN /\ pc' = "job_name"
            /\ UNCHANGED err
       ELSE Fail("IndexError")
    /\ UNCHANGED <<data, dataset, vocabs, vocab_list, vocab_dict, vocab_file, s3, tokenizer>>
    /\ UNCHANGED normalizer_vars
    /\ UNCHANGED deploy_vars

\* id = int(time.time()); TRAINING_JOB_NAME = f"huggingface-wav2vec2-training-{id}"
NameJob ==
    /\ pc = "job_name"
    /\ \E t \in Clock :
           globals' = Bind(Bind(globals, "id", t), "TRAINING_JOB_NAME", JobName(t))
    /\ pc' = "fit"
    /\ UNCHANGED <<err, data, dataset, vocabs, vocab_list, vocab_dict, vocab_file, s3,
                   tokenizer, jobs>>
    /\ UNCHANGED normalizer_vars

\* OUTPUT_PATH = ...; huggingface_estimator = HuggingFace(output_path=OUTPUT_PATH, ...);
\* huggingface_estimator.fit({...}, job_name=TRAINING_JOB_NAME)
StartTraining ==
    /\ pc = "fit"
    /\ LET job_name == globals["TRAINING_JOB_NAME"]
           output_path == OutputPath(job_name)
           model_data == ModelArtifact(output_path, job_name)
       IN  /\ jobs' = jobs \cup {[name |-> job_name, model_data |-> model_data]}
           /\ globals' =
                  Bind(Bind(globals, "OUTPUT_PATH", output_path),
                       "huggingface_estimator",
                       [output_path |-> output_path, model_data |-> model_data])
    /\ pc' = "create_model"
    /\ UNCHANGED <<err, data, dataset, vocabs, vocab_list, vocab_dict, vocab_file, s3,
                   tokenizer>>
    /\ UNCHANGED normalizer_vars

\* huggingface_model = HuggingFaceModel(..., model_data=model_data, ...): the
\* name model_data is read; no cell binds it.
CreateModel ==
    /\ pc = "create_model"
    /\ IF Bound("model_data")
       THEN /\ globals' =
                   Bind(globals, "huggingface_model",
                        [name |-> <<"huggingface-wav2vec2-model", globals["id"]>>,
                         model_data |-> globals["model_data"]])
            /\ pc' = "deploy"
            /\ UNCHANGED err
       ELSE /\ Fail("NameError")
            /\ UNCHANGED globals
    /\ UNCHANGED <<data, dataset, vocabs, vocab_list, vocab_dict, vocab_file, s3,
                   tokenizer, jobs>>
    /\ UNCHANGED normalizer_vars

---------------------------------------------------------------------------
(* The normalizer on its own *)

\* one more application of remove_special_characters to batch
ApplyNormalizer ==
    /\ Len(history) <= MaxApply
    /\ batch' = remove_special_characters(batch)
    /\ history' = Append(history, batch'.text)
    /\ UNCHANGED pipeline_vars
    /\ UNCHANGED deploy_vars

---------------------------------------------------------------------------
(* Specifications *)

Init ==
    /\ pc = "split"
    /\ err = "none"
    /\ data \in UNION {[1..n -> Transcripts] : n \in 0..MaxDocs}
    /\ dataset = NoDataset
    /\ vocabs = NoVocabs
    /\ vocab_list = <<>>
    /\ vocab_dict = <<>>
    /\ vocab_file = NoFile
    /\ s3 = NoFile
    /\ tokenizer = NoTokenizer
    /\ batch = NoBatch
    /\ history = <<>>
    /\ globals = NoGlobals
    /\ jobs = {}

Next ==
    \/ TrainTestSplit
    \/ MapNormalize
    \/ MapExtract
    \/ MergeVocab
    \/ BuildDict
    \/ AssignDelimiter
    \/ DeleteSpace
    \/ AddUnk
    \/ AddPad
    \/ DumpVocab
    \/ UploadVocab
    \/ CreateTokenizer

Spec == Init /\ [][Next]_vars

InitNorm ==
    /\ pc = "idle"
    /\ err = "none"
    /\ data = <<>>
    /\ dataset = NoDataset
    /\ vocabs = NoVocabs
    /\ vocab_list = <<>>
    /\ vocab_dict = <<>>
    /\ vocab_file = NoFile
    /\ s3 = NoFile
    /\ tokenizer = NoTokenizer
    /\ batch \in {[text |-> s] : s \in Strings(NormAlphabet, MaxLen) \cup Examples}
    /\ history = <<batch.text>>
    /\ globals = NoGlobals
    /\ jobs = {}

NextNorm == ApplyNormalizer

\* The whole notebook, its cells in order
NextRun ==
    \/ Next
    \/ DrawSample
    \/ ShowSample
    \/ NameJob
    \/ StartTraining
    \/ CreateModel

SpecRun == Init /\ [][NextRun]_vars

SpecNorm == InitNorm /\ [][NextNorm]_vars

---------------------------------------------------------------------------
(* Positions of the run *)

\* The statements in the order the notebook executes them
Statements ==
    <<"split", "normalize", "extract", "merge", "enumerate", "assign_delimiter",
      "del_space", "add_unk", "add_pad", "dump", "upload", "tokenizer", "sample",
      "show_sample", "job_name", "fit", "create_model", "deploy">>

Position(stmt) ==
    IF \E i \in DOMAIN Statements : Statements[i] = stmt
    THEN CHOOSE i \in DOMAIN Statements : Statements[i] = stmt
    ELSE 0

\* The statement stmt has been executed without raising
Executed(stmt) == Position(pc) > Position(stmt)

\* vocab_dict is complete: "[PAD]" has been added
Built == Executed("add_pad")

\* The normalized transcripts of both splits
Corpus == dataset.train \o dataset.test

CorpusReady == Executed("normalize") \/ err = "KeyError"

\* The distinct characters of the normalized transcripts
CorpusChars == UNION {CharSet(Corpus[i]) : i \in DOMAIN Corpus}

\* The index enumerate gave to the character c of vocab_list
EnumIndex(c) == (CHOOSE i \in DOMAIN vocab_list : vocab_list[i] = c) - 1

\* The items of d whose key is k
Entries(d, k) == {i \in DOMAIN d : d[i].key = k}

---------------------------------------------------------------------------
(* Claims on the vocabulary builder *)

\* C1: once vocabulary construction has completed, vocab_dict is injective and
\* its indices are exactly 0 .. N-1, N the number of keys, for every corpus
\* (one holding a literal "|" included) and every enumeration order.
C1_DenseInjective ==
    Built =>
        /\ \A i, j \in DOMAIN vocab_dict :
               vocab_dict[i].val = vocab_dict[j].val => i = j
        /\ DictVals(vocab_dict) = 0 .. (Len(vocab_dict) - 1)

\* C2: once vocabulary construction has completed, the number of keys of
\* vocab_dict is the number of distinct non-space characters of the normalized
\* train and test transcripts, plus 3.
C2_SizeIsCharsPlus3 ==
    Built => Len(vocab_dict) = Cardinality(CorpusChars \ {SPACE}) + 3

\* C3: after the substitution on a corpus in which the space occurs, the space
\* is no key, "|" is a key holding the index enumerate gave to the space, and
\* every other character key holds the index enumerate gave to it.
C3_DelimiterTakesSpaceIndex ==
    (Executed("del_space") /\ SPACE \in CorpusChars) =>
        /\ ~DictHas(vocab_dict, SPACE)
        /\ Cardinality(Entries(vocab_dict, DELIMITER)) = 1
        /\ DictGet(vocab_dict, DELIMITER) = EnumIndex(SPACE)
        /\ \A i \in DOMAIN vocab_list :
               vocab_list[i] \notin {SPACE, DELIMITER} =>
                   /\ Cardinality(Entries(vocab_dict, vocab_list[i])) = 1
                   /\ DictGet(vocab_dict, vocab_list[i]) = i - 1

\* C3 witness: the substitution has run on a corpus holding the space, a
\* literal "|" and another character.
C3_Witness ==
    /\ pc = "add_unk"
    /\ {SPACE, DELIMITER, <<"a">>} \subseteq CorpusChars

\* C4: once vocabulary construction has completed, "[UNK]" and "[PAD]" are keys
\* with the indices N-2 and N-1, N the final size; these are the two highest
\* indices and no other key holds either of them.
C4_ReservedIndices ==
    Built =>
        /\ DictHas(vocab_dict, UNK)
        /\ DictHas(vocab_dict, PAD)
        /\ DictGet(vocab_dict, UNK) = Len(vocab_dict) - 2
        /\ DictGet(vocab_dict, PAD) = Len(vocab_dict) - 1
        /\ \A i \in DOMAIN vocab_dict :
               vocab_dict[i].key \notin {UNK, PAD} =>
                   vocab_dict[i].val < Len(vocab_dict) - 2

\* C5: on a corpus that holds characters but no space, vocabulary construction
\* does not fail, and the mapping it produces has no key "|".
C5_NoSpaceNoDelimiter ==
    (CorpusReady /\ CorpusChars # {} /\ SPACE \notin CorpusChars) =>
        /\ err = "none"
        /\ Built => ~DictHas(vocab_dict, DELIMITER)

\* C6: on a corpus of zero transcripts, or one that yields no character after
\* normalization, the run fails with EmptyCorpusError and vocab.json is neither
\* written nor uploaded.
C6_EmptyCorpusError ==
    (\A i \in DOMAIN data : Normalize(data[i]) = <<>>) =>
        /\ ~vocab_file.exists
        /\ ~s3.exists
        /\ ~Built
        /\ pc = "failed" => err = "EmptyCorpusError"

---------------------------------------------------------------------------
(* Claims on the normalizer *)

\* The eight characters the normalizer is to remove
EightChars == {",", "?", ".", "!", "-", ";", ":", "\""}

\* C7: normalization is idempotent: each further application of
\* remove_special_characters leaves the text as the first application left it.
C7_Idempotent ==
    \A i \in DOMAIN history : i >= 3 => history[i] = history[2]

\* C7 witness: a text that held an ignored character and an uppercase letter
\* has been normalized twice.
C7_Witness ==
    /\ Len(history) >= 3
    /\ \E i, j \in DOMAIN history[1] :
           history[1][i] \in EightChars /\ history[1][j] = "A"

\* C8: the text remove_special_characters produces holds none of the eight
\* characters , ? . ! - ; : "
C8_NoIgnoredChar ==
    \A i \in DOMAIN history :
        i >= 2 => \A j \in DOMAIN history[i] : history[i][j] \notin EightChars

\* C8 witness: a text made only of ignored characters, the double quote among
\* them, has been normalized.
C8_Witness ==
    /\ Len(history) >= 2
    /\ Len(history[1]) >= 2
    /\ \A j \in DOMAIN history[1] : history[1][j] \in EightChars
    /\ \E j \in DOMAIN history[1] : history[1][j] = "\""

\* The lowercase form of an ASCII letter, other characters unchanged
RefLower(c) ==
    IF \E i \in 1..26 : UpperLetters[i] = c
    THEN LowerLetters[CHOOSE i \in 1..26 : UpperLetters[i] = c]
    ELSE c

\* The text with the eight characters deleted and the rest lowercased in place
Reference(str) ==
    LET kept == SelectSeq(str, LAMBDA c : c \notin EightChars)
    IN  [i \in DOMAIN kept |-> RefLower(kept[i])]

HelloWorld == <<"H", "e", "l", "l", "o", ",", " ", "W", "o", "r", "l", "d", "!">>

HiThere == <<"h", "i", ",", "t", "h", "e", "r", "e">>

\* C9: the text remove_special_characters produces is the input with every
\* character of the ignore set deleted and every other character lowercased in
\* place: no uppercase letter remains, "Hello, World!" gives "hello world",
\* "hi,there" gives "hithere" and "" gives "".
C9_DeleteAndLower ==
    Len(history) >= 2 =>
        /\ history[2] = Reference(history[1])
        /\ \A j \in DOMAIN history[2] :
               \A k \in DOMAIN UpperLetters : history[2][j] # UpperLetters[k]
        /\ history[1] = HelloWorld =>
               history[2] = <<"h", "e", "l", "l", "o", " ", "w", "o", "r", "l", "d">>
        /\ history[1] = HiThere =>
               history[2] = <<"h", "i", "t", "h", "e", "r", "e">>
        /\ history[1] = <<>> => history[2] = <<>>

\* C9 witness: "Hello, World!" has been normalized.
C9_Witness ==
    /\ Len(history) >= 2
    /\ history[1] = HelloWorld

---------------------------------------------------------------------------
(* Claim on the persisted vocabulary *)

\* C10: the document written to vocab.json always loads, and the mapping the
\* tokenizer loads from it has the keys of vocab_dict and, for each key, the
\* integer vocab_dict holds for it.
C10_RoundTrip ==
    /\ err # "JSONDecodeError"
    /\ tokenizer.created =>
           /\ vocab_file.exists
           /\ DictKeys(tokenizer.encoder) = DictKeys(vocab_dict)
           /\ \A k \in DictKeys(vocab_dict) :
                  /\ Cardinality(Entries(tokenizer.encoder, k)) = 1
                  /\ DictGet(tokenizer.encoder, k) = DictGet(vocab_dict, k)

\* C10 witness: a mapping with a backslash key and five keys in all has been
\* written and loaded back.
C10_Witness ==
    /\ tokenizer.created
    /\ DictHas(vocab_dict, <<"\\">>)
    /\ Len(vocab_dict) = 5

---------------------------------------------------------------------------
(* Claims on the corpus and the order of the cells *)

\* The distinct characters of the loaded transcripts once normalized: the same
\* for every order of the transcripts
CollectionChars == UNION {CharSet(Normalize(data[i])) : i \in DOMAIN data}

\* The separator " ".join puts between the transcripts of a split of two or
\* more rows; the sizes of the splits follow from the number of transcripts.
CollectionSeparator ==
    IF NTest(Len(data)) >= 2 \/ Len(data) - NTest(Len(data)) >= 2
    THEN {SPACE}
    ELSE {}

\* The keys of vocab_dict as the collection of transcripts alone gives them
CollectionKeys ==
    ((CollectionChars \cup CollectionSeparator) \ {SPACE}) \cup {DELIMITER, UNK, PAD}

\* C11: whether vocabulary construction completes, and the keys and the size of
\* vocab_dict when it does, are given by the collection of normalized
\* transcripts alone, whatever their order and whatever the split put in the
\* train and in the test partition.
C11_OutcomeFromCollection ==
    /\ err = "KeyError" => SPACE \notin CollectionChars \cup CollectionSeparator
    /\ Executed("assign_delimiter") => SPACE \in CollectionChars \cup CollectionSeparator
    /\ Built =>
           /\ DictKeys(vocab_dict) = CollectionKeys
           /\ Len(vocab_dict) = Cardinality(CollectionKeys)

\* C11 witness: vocab_dict is complete for three transcripts of which the test
\* partition got one whose character the train partition does not hold.
C11_Witness ==
    /\ Built
    /\ Len(data) = 3
    /\ vocabs.test.vocab # {}
    /\ vocabs.test.vocab \cap vocabs.train.vocab = {}

\* C12: the characters indices are assigned from, vocab_list, are exactly the
\* distinct characters that occur in some normalized transcript of the train
\* or the test partition: each of them is a member, and each member, the space
\* included, occurs in some transcript.
C12_ExactlyCorpusChars ==
    Executed("merge") => {vocab_list[i] : i \in DOMAIN vocab_list} = CorpusChars

\* The characters a normalized text does not hold: the eight ignored ones and
\* the uppercase letters
Unnormalized == EightChars \cup {UpperLetters[k] : k \in DOMAIN UpperLetters}

\* C13: extract_characters runs only on transcripts that went through
\* remove_special_characters, in both partitions, and adds no normalization of
\* its own (every character of a transcript reaches the column "vocab"); so no
\* key of the vocabulary written to vocab.json, nor of the one loaded back from
\* it, is an ignored character or an uppercase letter.
C13_NormalizedBeforeExtract ==
    /\ (pc = "extract" \/ Executed("extract")) =>
           \A i \in DOMAIN Corpus : \A j \in DOMAIN Corpus[i] :
               Corpus[i][j] \notin Unnormalized
    /\ Executed("extract") =>
           \A split \in DOMAIN dataset : \A i \in DOMAIN dataset[split] :
               CharSet(dataset[split][i]) \subseteq vocabs[split].vocab
    /\ vocab_file.exists =>
           \A k \in DictKeys(vocab_dict) : Len(k) = 1 => k[1] \notin Unnormalized
    /\ tokenizer.created =>
           \A k \in DictKeys(tokenizer.encoder) : Len(k) = 1 => k[1] \notin Unnormalized

\* C13 witness: vocab.json has been written and loaded back for a corpus loaded
\* with an uppercase letter and an ignored character.
C13_Witness ==
    /\ tokenizer.created
    /\ \E i, j \in DOMAIN data : data[i] = <<"A">> /\ data[j] = <<",">>
    /\ DictHas(vocab_dict, <<"a">>)

---------------------------------------------------------------------------
(* Claims on the cells after the tokenizer *)

\* C14: with the cells run in order, the HuggingFaceModel is created, and its
\* model_data is the artifact location of the training job that
\* huggingface_estimator.fit started under TRAINING_JOB_NAME, a name bound
\* before the model is created.
C14_ModelFromEstimator ==
    /\ err # "NameError"
    /\ Bound("huggingface_model") =>
           /\ Bound("TRAINING_JOB_NAME")
           /\ \E j \in jobs :
                  /\ j.name = globals["TRAINING_JOB_NAME"]
                  /\ globals["huggingface_model"].model_data = j.model_data

\* C15: the index drawn for the sample check is a valid index of the train
\* partition: 0 <= rand_int < len(dataset["train"]).
C15_ValidIndex ==
    Bound("rand_int") =>
        /\ 0 <= globals["rand_int"]
        /\ globals["rand_int"] < Len(dataset.train)

=============================================================================
